---- MODULE Spec2Model ----
(***************************************************************************)
(* A model of nPerlin.py (class NPerlin): the stored configuration, its    *)
(* validated setters, the derived per-axis quantities and the sampling     *)
(* pipeline formatCoords -> findBounds -> findFab -> bNoise -> applyRange.  *)
(*                                                                         *)
(* Numbers.  Coordinates and configuration values are integers.  A double  *)
(* the pipeline computes from them is written <<n, d>>, the binary         *)
(* fraction n / d in lowest terms, d a power of two: the model holds the   *)
(* doubles whose numerator and denominator fit its integers, and on these  *)
(* the float operations of the code are exact.  <<0, 0>> (NaR) stands for  *)
(* every other double: the result of an operation that rounds (1 / 3), or  *)
(* one too large or too fine for the integers of the model.  The model     *)
(* says nothing about the value of a NaR; the properties below compare     *)
(* returned values only where they are numbers.                            *)
(* Arrays are sequences; Python's 0-based index i is position i + 1.       *)
(***************************************************************************)
EXTENDS Integers, Sequences, FiniteSets, TLC

(***************************************************************************)
(* Bounds of the model.                                                    *)
(***************************************************************************)
\* the largest number of coordinate axes passed to one call
MaxDims == 2
\* the largest number of coordinates given for one axis of a call
MaxLen == 2
\* the largest number of coordinates given for one axis to formatCoords alone
MaxFormatLen == 5

(***************************************************************************)
(* Double precision arithmetic on binary fractions (the float arithmetic   *)
(* of lines 58, 111, 115, 117 and 128).                                    *)
(***************************************************************************)
MaxInt == 2147483646 + 1

Abs(x) == IF x < 0 THEN -x ELSE x

RECURSIVE GCD(_, _)
GCD(a, b) == IF b = 0 THEN a ELSE GCD(b, a % b)

\* the product a * b fits the integers of the model
Fits(a, b) == a = 0 \/ Abs(b) <= MaxInt \div Abs(a)

NaR == <<0, 0>>

IsNum(r) == r[2] # 0

RECURSIVE IsPow2(_)
IsPow2(d) == d = 1 \/ (d > 1 /\ d % 2 = 0 /\ IsPow2(d \div 2))

\* n / d in lowest terms, d > 0
Reduce(n, d) == LET g == GCD(Abs(n), d) IN <<n \div g, d \div g>>

\* the double an operation returns whose exact result is r: r itself when r
\* is a binary fraction, a rounded value the model does not hold otherwise
Float64(r) == IF IsNum(r) /\ IsPow2(r[2]) THEN r ELSE NaR

\* n / d for integers n and d > 0 (true division, line 58)
Rat(n, d) == Float64(Reduce(n, d))

RInt(k) == <<k, 1>>

RNeg(a) == IF IsNum(a) THEN <<-a[1], a[2]>> ELSE NaR

RMul(a, b) ==
    IF ~IsNum(a) \/ ~IsNum(b) THEN NaR
    ELSE LET g1 == GCD(Abs(a[1]), b[2])
             g2 == GCD(Abs(b[1]), a[2])
             n1 == a[1] \div g1
             n2 == b[1] \div g2
             d1 == a[2] \div g2
             d2 == b[2] \div g1
         IN  IF Fits(n1, n2) /\ Fits(d1, d2) THEN <<n1 * n2, d1 * d2>> ELSE NaR

RAdd(a, b) ==
    IF ~IsNum(a) \/ ~IsNum(b) THEN NaR
    ELSE LET g  == GCD(a[2], b[2])
             m1 == b[2] \div g
             m2 == a[2] \div g
         IN  IF Fits(a[1], m1) /\ Fits(b[1], m2) /\ Fits(a[2], m1)
                /\ Abs(a[1] * m1) <= MaxInt - Abs(b[1] * m2)
             THEN Reduce(a[1] * m1 + b[1] * m2, a[2] * m1)
             ELSE NaR

RSub(a, b) == RAdd(a, RNeg(b))

\* a <= b, for numbers whose difference the model can compute
RLe(a, b) == LET dl == RSub(b, a) IN IsNum(dl) /\ dl[1] >= 0

RLt(a, b) == LET dl == RSub(b, a) IN IsNum(dl) /\ dl[1] > 0

\* np.floor of a rational
RFloor(a) == a[1] \div a[2]

(***************************************************************************)
(* Python values handed to the constructor and the setters.  An argument   *)
(* is a scalar, a tuple or a list of elements; an element has a Python     *)
(* type, a number n (for int and float) and a name w (for Warp and str).   *)
(***************************************************************************)
El(t, n, w) == [ty |-> t, n |-> n, w |-> w]
PInt(k) == El("int", k, "")
PFloat(k) == El("float", k, "")
PStr(s) == El("str", 0, s)
PWarp(s) == El("Warp", 0, s)
PyNone == [kind |-> "scalar", el |-> <<El("NoneType", 0, "")>>]
Scalar(e) == [kind |-> "scalar", el |-> <<e>>]
Tuple(s) == [kind |-> "tuple", el |-> s]
List(s) == [kind |-> "list", el |-> s]

\* isinstance(x, int), isinstance(x, (int, float)), isinstance(x, Warp) of an element
IsInt(e) == e.ty = "int"
IsReal(e) == e.ty \in {"int", "float"}
IsWarp(e) == e.ty = "Warp"

Range(s) == {s[i] : i \in 1..Len(s)}

\* <<Op(1), ..., Op(n)>>
RECURSIVE SeqOf(_, _)
SeqOf(Op(_), n) == IF n = 0 THEN <<>> ELSE Append(SeqOf(Op, n - 1), Op(n))

SeqMap(Op(_), s) == SeqOf(LAMBDA i : Op(s[i]), Len(s))

NumOf(e) == e.n
NameOf(e) == e.w

(***************************************************************************)
(* NTuple (tools.py): a fixed sequence of per-axis values.  Reading past   *)
(* the declared length repeats the last declared value; a negative index   *)
(* counts from the end, as for any Python tuple; iterating yields the       *)
(* declared values only.                                                   *)
(***************************************************************************)
NTupleGet(t, i) ==
    IF i < 0 THEN t[Len(t) + i + 1]
    ELSE IF i < Len(t) THEN t[i + 1] ELSE t[Len(t)]

\* t[:n]
NTupleSlice(t, n) == SeqOf(LAMBDA i : NTupleGet(t, i - 1), n)

\* t * k
NTupleMul(t, k) == SeqOf(LAMBDA i : t[i] * k, Len(t))

(***************************************************************************)
(* The arguments the model hands to the constructor and the setters.       *)
(***************************************************************************)
Seeds == {0, 1}

FwmArgs == {0, 1, 2}

FrequencyArgs ==
    { Scalar(PInt(2)), Tuple(<<PInt(2), PInt(4)>>),
      Scalar(PInt(1)), Scalar(PFloat(2)), Tuple(<<PInt(2), PInt(1)>>),
      Tuple(<<PInt(2), PFloat(4)>>), List(<<PInt(2), PInt(4)>>),
      Tuple(<<PInt(2), PStr("4")>>), PyNone }

WaveLengthArgs ==
    { Scalar(PInt(8)), Tuple(<<PInt(8), PFloat(32)>>),
      Scalar(PInt(0)), Tuple(<<PInt(8), PInt(-1)>>),
      List(<<PInt(8), PInt(32)>>), Scalar(PStr("8")), PyNone }

WarpArgs ==
    { Scalar(PWarp("lerp")), Tuple(<<PWarp("lerp"), PWarp("improved")>>),
      Scalar(PStr("lerp")), Tuple(<<PWarp("lerp"), PInt(1)>>),
      List(<<PWarp("lerp")>>), PyNone }

RangeArgs ==
    { Tuple(<<PInt(-2), PInt(2)>>), Tuple(<<PInt(1), PInt(0)>>),
      List(<<PInt(0), PFloat(1)>>),
      Tuple(<<PInt(0), PInt(1), PInt(2)>>), Tuple(<<PInt(0), PStr("1")>>),
      Tuple(<<PInt(0)>>), Scalar(PInt(1)), Scalar(PStr("ab")), PyNone }

(***************************************************************************)
(* State.                                                                  *)
(***************************************************************************)
VARIABLES
    seed,        \* self.__prng.seed()
    frequency,   \* self.__frequency, an NTuple of int
    waveLength,  \* self.__waveLength, an NTuple of numbers
    warp,        \* self.__warp, an NTuple of Warp (by name)
    range,       \* self.__range, <<lo, hi>>
    rangeMul,    \* self.__rangeMul
    fwm,         \* self.fwm
    pc,          \* "idle", or "done" while the caller holds the last result
    op,          \* the operation that ran last
    arg,         \* its argument, for the constructor and the setters
    coords,      \* its coordinates, for __call__ and formatCoords
    res          \* what it returned or raised

config == <<seed, frequency, waveLength, warp, range, rangeMul, fwm>>

vars == <<seed, frequency, waveLength, warp, range, rangeMul, fwm, pc, op, arg,
          coords, res>>

NoArg == [kind |-> "none", el |-> <<>>]

NoCoords == <<>>

(***************************************************************************)
(* Validation (lines 157-187).  A check returns the exception it raises,   *)
(* or "ok".  all(...) stops at the first element that fails; comparing a   *)
(* str or None with a number raises TypeError before isinstance is asked.  *)
(***************************************************************************)
RECURSIVE AllFrequency(_, _)
AllFrequency(s, i) ==
    IF i > Len(s) THEN "ok"
    ELSE IF ~IsReal(s[i]) THEN "TypeError"
    ELSE IF s[i].n > 1 /\ IsInt(s[i]) THEN AllFrequency(s, i + 1)
    ELSE "AssertionError"

RECURSIVE AllWaveLength(_, _)
AllWaveLength(s, i) ==
    IF i > Len(s) THEN "ok"
    ELSE IF ~IsReal(s[i]) THEN "TypeError"
    ELSE IF s[i].n > 0 THEN AllWaveLength(s, i + 1)
    ELSE "AssertionError"

\* line 159: a bare int becomes a 1-tuple
FrequencyTuple(a) == IF a.kind = "scalar" /\ IsInt(a.el[1]) THEN Tuple(a.el) ELSE a

checkFrequency(a) ==
    IF FrequencyTuple(a).kind # "tuple" THEN "AssertionError"
    ELSE AllFrequency(FrequencyTuple(a).el, 1)

\* __getFrequency, for an argument that passes
getFrequency(a) == SeqMap(NumOf, FrequencyTuple(a).el)

\* line 167: a bare int or float becomes a 1-tuple
WaveLengthTuple(a) == IF a.kind = "scalar" /\ IsReal(a.el[1]) THEN Tuple(a.el) ELSE a

checkWaveLength(a) ==
    IF WaveLengthTuple(a).kind # "tuple" THEN "AssertionError"
    ELSE AllWaveLength(WaveLengthTuple(a).el, 1)

getWaveLength(a) == SeqMap(NumOf, WaveLengthTuple(a).el)

\* line 175: a bare Warp becomes a 1-tuple
WarpTuple(a) == IF a.kind = "scalar" /\ IsWarp(a.el[1]) THEN Tuple(a.el) ELSE a

checkWarp(a) ==
    IF WarpTuple(a).kind = "tuple" /\ \A e \in Range(WarpTuple(a).el) : IsWarp(e)
    THEN "ok" ELSE "AssertionError"

getWarp(a) == SeqMap(NameOf, WarpTuple(a).el)

\* line 184: len() of a number or of None raises TypeError; a str has a
\* length, and its items are str, so the assertion fails whatever its length
checkRange(a) ==
    IF a.kind = "scalar"
    THEN IF a.el[1].ty = "str" THEN "AssertionError" ELSE "TypeError"
    ELSE IF Len(a.el) = 2 /\ IsReal(a.el[1]) /\ IsReal(a.el[2]) THEN "ok"
    ELSE "AssertionError"

\* __getRange: (_range, _rangeMul)
getRange(a) == <<SeqMap(NumOf, a.el), a.el[2].n - a.el[1].n>>

(***************************************************************************)
(* What an operation leaves in res.                                        *)
(***************************************************************************)
Result(status) ==
    [status |-> status, vals |-> <<>>, mat |-> <<>>, lower |-> <<>>, frac |-> <<>>,
     index |-> <<>>, shape |-> <<>>, off |-> <<>>, warps |-> <<>>]

(***************************************************************************)
(* The constructor (lines 64-89): None selects the default.                *)
(***************************************************************************)
DefaultFrequency == Scalar(PInt(8))
DefaultWaveLength == Scalar(PInt(128))
DefaultWarp == Scalar(PWarp("improved"))
DefaultRange == Tuple(<<PInt(0), PInt(1)>>)

OrDefault(a, dflt) == IF a = PyNone THEN dflt ELSE a

Construct(S, F, W, P, R, M) ==
    \E s \in S, f \in F, wl \in W, wp \in P, r \in R, m \in M :
        /\ checkFrequency(OrDefault(f, DefaultFrequency)) = "ok"
        /\ checkWaveLength(OrDefault(wl, DefaultWaveLength)) = "ok"
        /\ checkWarp(OrDefault(wp, DefaultWarp)) = "ok"
        /\ checkRange(OrDefault(r, DefaultRange)) = "ok"
        /\ fwm = m
        /\ frequency = getFrequency(OrDefault(f, DefaultFrequency))
        /\ waveLength = getWaveLength(OrDefault(wl, DefaultWaveLength))
        /\ seed = s
        /\ warp = getWarp(OrDefault(wp, DefaultWarp))
        /\ range = getRange(OrDefault(r, DefaultRange))[1]
        /\ rangeMul = getRange(OrDefault(r, DefaultRange))[2]
        /\ pc = "idle"
        /\ op = "idle"
        /\ arg = NoArg
        /\ coords = NoCoords
        /\ res = Result("ok")

Init == Construct(Seeds, FrequencyArgs, WaveLengthArgs, WarpArgs, RangeArgs, FwmArgs)

\* NPerlin(seed=0)
InitDefault == Construct({0}, {PyNone}, {PyNone}, {PyNone}, {PyNone}, {1})

\* NPerlin(0, frequency, waveLength, fwm=m)
InitLattice == Construct({0}, FrequencyArgs, WaveLengthArgs, {PyNone}, {PyNone}, FwmArgs)

(***************************************************************************)
(* The setters (lines 14-51) and the assignment to the public attribute    *)
(* fwm.  A setter that raises leaves every field as it was.                *)
(***************************************************************************)
Done(name, a, c, r) ==
    /\ pc' = "done"
    /\ op' = name
    /\ arg' = a
    /\ coords' = c
    /\ res' = r

setSeed(s) ==
    /\ pc = "idle"
    /\ seed' = s
    /\ UNCHANGED <<frequency, waveLength, warp, range, rangeMul, fwm>>
    /\ Done("setSeed", Scalar(PInt(s)), NoCoords, Result("ok"))

setFrequency(a) ==
    /\ pc = "idle"
    /\ frequency' = IF checkFrequency(a) = "ok" THEN getFrequency(a) ELSE frequency
    /\ UNCHANGED <<seed, waveLength, warp, range, rangeMul, fwm>>
    /\ Done("setFrequency", a, NoCoords, Result(checkFrequency(a)))

\* a variant of setWaveLength that stores its value in the frequency field
setWaveLengthIntoFrequency(a) ==
    /\ pc = "idle"
    /\ frequency' = IF checkWaveLength(a) = "ok" THEN getWaveLength(a) ELSE frequency
    /\ UNCHANGED <<seed, waveLength, warp, range, rangeMul, fwm>>
    /\ Done("setWaveLength", a, NoCoords, Result(checkWaveLength(a)))

setWaveLength(a) ==
    /\ pc = "idle"
    /\ waveLength' = IF checkWaveLength(a) = "ok" THEN getWaveLength(a) ELSE waveLength
    /\ UNCHANGED <<seed, frequency, warp, range, rangeMul, fwm>>
    /\ Done("setWaveLength", a, NoCoords, Result(checkWaveLength(a)))

setWarp(a) ==
    /\ pc = "idle"
    /\ warp' = IF checkWarp(a) = "ok" THEN getWarp(a) ELSE warp
    /\ UNCHANGED <<seed, frequency, waveLength, range, rangeMul, fwm>>
    /\ Done("setWarp", a, NoCoords, Result(checkWarp(a)))

setRange(a) ==
    /\ pc = "idle"
    /\ range' = IF checkRange(a) = "ok" THEN getRange(a)[1] ELSE range
    /\ rangeMul' = IF checkRange(a) = "ok" THEN getRange(a)[2] ELSE rangeMul
    /\ UNCHANGED <<seed, frequency, waveLength, warp, fwm>>
    /\ Done("setRange", a, NoCoords, Result(checkRange(a)))

setFwm(m) ==
    /\ pc = "idle"
    /\ fwm' = m
    /\ UNCHANGED <<seed, frequency, waveLength, warp, range, rangeMul>>
    /\ Done("setFwm", Scalar(PInt(m)), NoCoords, Result("ok"))

\* the caller drops the result of the last operation
Return ==
    /\ pc = "done"
    /\ pc' = "idle"
    /\ op' = "idle"
    /\ arg' = NoArg
    /\ coords' = NoCoords
    /\ res' = Result("ok")
    /\ UNCHANGED config

(***************************************************************************)
(* Derived quantities (lines 21-34 and 56-58), computed on every read.     *)
(***************************************************************************)
mFrequency == NTupleMul(frequency, fwm)

mWaveLength == NTupleMul(waveLength, fwm)

\* zip stops at the shorter of its arguments
Zip(s, t) ==
    SeqOf(LAMBDA i : <<s[i], t[i]>>, IF Len(s) < Len(t) THEN Len(s) ELSE Len(t))

\* w / f raises ZeroDivisionError when f = 0
ampRaises == \E p \in Range(Zip(mWaveLength, mFrequency)) : p[2] = 0

\* amp, when it does not raise
amp ==
    LET z == Zip(mWaveLength, mFrequency)
    IN  SeqOf(LAMBDA i : Rat(z[i][1], z[i][2]), Len(z))

(***************************************************************************)
(* Coordinates.  One axis of a call is a bare scalar or an array.          *)
(***************************************************************************)
Huge == 64 * 65536 + 4

\* the coordinates of a call: an axis is given some of these, in this order
CoordList == <<0, 24, -6, Huge>>

\* the n-th coordinate handed to formatCoords alone: 3, -6, 9, -12, ...; the
\* fifth is 2^24 + 1, which single precision cannot hold
FormatVal(n) == IF n = 5 THEN 16777216 + 1 ELSE IF n % 2 = 0 THEN -3 * n ELSE 3 * n

Bare(x) == [it |-> FALSE, v |-> <<x>>]

Array(s) == [it |-> TRUE, v |-> s]

\* the subsequences of s with 1 to n entries
RECURSIVE SubSeqs(_, _)
SubSeqs(s, n) ==
    IF Len(s) = 0 \/ n = 0 THEN {<<>>}
    ELSE SubSeqs(Tail(s), n) \cup {<<Head(s)>> \o t : t \in SubSeqs(Tail(s), n - 1)}

CallAxes == {Array(s) : s \in SubSeqs(CoordList, MaxLen) \ {<<>>}}

\* a bare number, or FormatVal(a), ..., FormatVal(a + k - 1)
FormatAxes ==
    {Bare(FormatVal(n)) : n \in 1..3}
    \cup {Array(SeqOf(LAMBDA i : FormatVal(a + i - 1), k)) :
            a \in 1..MaxFormatLen, k \in 1..MaxFormatLen}

CallInputs == UNION {[1..d -> CallAxes] : d \in 0..MaxDims}

FormatInputs == UNION {[1..d -> FormatAxes] : d \in 1..MaxDims}

RECURSIVE SeqMax(_, _)
SeqMax(s, i) == IF i > Len(s) THEN 0 ELSE LET m == SeqMax(s, i + 1) IN IF s[i] > m THEN s[i] ELSE m

RECURSIVE SeqMin(_, _)
SeqMin(s, i) ==
    IF i = Len(s) THEN s[i] ELSE LET m == SeqMin(s, i + 1) IN IF s[i] < m THEN s[i] ELSE m

(***************************************************************************)
(* formatCoords (lines 130-155).                                           *)
(***************************************************************************)
\* the float32 nearest to the integer x, ties to even (dtype=np.float32, line 142)
RECURSIVE Ulp(_, _)
Ulp(a, p) == IF a \div p < 2^24 THEN p ELSE Ulp(a, 2 * p)

Float32(x) ==
    LET a == Abs(x)
        p == Ulp(a, 1)
        q == a \div p
        r == a % p
        m == IF 2 * r < p \/ (2 * r = p /\ q % 2 = 0) THEN q * p ELSE (q + 1) * p
    IN  IF x < 0 THEN -m ELSE m

\* maxLen(coords, ...), line 139
maxLength(cs) == SeqMax(SeqOf(LAMBDA d : Len(cs[d].v), Len(cs)), 1)

\* a variant of FormatRow that fills the remainder with the first value
FormatRowFirst(v, n) ==
    LET stretch == n \div Len(v)
        left == n % Len(v)
    IN  SeqOf(LAMBDA j : IF j - 1 < n - left THEN v[((j - 1) \div stretch) + 1]
                         ELSE v[1], n)

\* lines 145-152: row d stretched to n entries
FormatRow(v, n) ==
    LET stretch == n \div Len(v)
        left == n % Len(v)
    IN  SeqOf(LAMBDA j : IF j - 1 < n - left THEN v[((j - 1) \div stretch) + 1]
                         ELSE v[Len(v)], n)

formatCoords(cs) ==
    LET n == maxLength(cs)
    IN  SeqOf(LAMBDA d : SeqMap(LAMBDA x : Abs(Float32(x)), FormatRow(cs[d].v, n)), Len(cs))

(***************************************************************************)
(* The collaborators of tools.py and selectionTools.py.                    *)
(***************************************************************************)
\* findCorners(D): vertex c (from 0) as D bits, the bit of the last axis first
RECURSIVE Pow2(_)
Pow2(n) == IF n = 0 THEN 1 ELSE 2 * Pow2(n - 1)

findCorners(D) ==
    SeqOf(LAMBDA c : SeqOf(LAMBDA i : ((c - 1) \div Pow2(D - i)) % 2, D), Pow2(D))

\* NPrng: the value of the node with absolute index idx, in [0, 1)
RECURSIVE NodeSum(_, _)
NodeSum(idx, i) == IF i > Len(idx) THEN 0 ELSE (2 * i + 1) * idx[i] + NodeSum(idx, i + 1)

Node(s, idx) == Reduce((5 * s + NodeSum(idx, 1)) % 8, 8)

\* NPrng.shaped(shape, off): the window of the given shape at the given offset
shaped(shape, off) == [shape |-> shape, off |-> off]

\* fab[idx]: numpy raises IndexError for an index outside the window's shape
InFab(fab, idx) == \A i \in 1..Len(idx) : idx[i] < fab.shape[i]

FabGet(s, fab, idx) == Node(s, SeqOf(LAMBDA i : fab.off[i] + idx[i], Len(idx)))

\* Warp: lerp is t, improved is 6t^5 - 15t^4 + 10t^3
WarpApply(name, t) ==
    IF name = "lerp" THEN t
    ELSE LET t2 == RMul(t, t)
             t3 == RMul(t2, t)
             q  == RAdd(RSub(RMul(RInt(6), t2), RMul(RInt(15), t)), RInt(10))
         IN  RMul(t3, q)

(***************************************************************************)
(* findBounds (lines 114-121).                                             *)
(***************************************************************************)
UInt16Range == 65536

Casts == {"wrap", "saturate"}

\* astype(np.uint16) of a float: exact in range; out of range the C cast is
\* undefined, and the builds either keep the low 16 bits or saturate
AsUInt16(k, cast) ==
    IF 0 <= k /\ k < UInt16Range THEN k
    ELSE IF cast = "wrap" THEN k % UInt16Range ELSE UInt16Range - 1

\* x / a for an integer x and a double a > 0
Unitize(x, a) == Float64(RMul(RInt(x), <<a[2], a[1]>>))

\* line 115: row i of the reversed matrix, divided by amp[i]
Unitized(fCoords) ==
    LET D == Len(fCoords)
        a == NTupleSlice(amp, D)
    IN  SeqOf(LAMBDA i : SeqMap(LAMBDA x : Unitize(x, a[i]), fCoords[D + 1 - i]), D)

\* line 116
LowerIndex(u, cast) ==
    SeqOf(LAMBDA i : SeqMap(LAMBDA x : AsUInt16(RFloor(x), cast), u[i]), Len(u))

\* line 117
Fraction(u, l) ==
    SeqOf(LAMBDA i : SeqOf(LAMBDA j : RSub(u[i][j], RInt(l[i][j])), Len(u[i])), Len(u))

\* a variant of WrapIndex that leaves the index unwrapped
WrapIndexNone(k, f) == k

\* line 120
WrapIndex(k, f) == k % f

\* lines 119-120: bIndex[i][c][j], from the lower indices
BIndex(l) ==
    LET D == Len(l)
        cn == findCorners(D)
        mf == NTupleSlice(mFrequency, D)
    IN  SeqOf(LAMBDA i : SeqOf(LAMBDA c : SeqOf(LAMBDA j :
            WrapIndex(l[i][j] + cn[c][i], mf[i]), Len(l[i])), Pow2(D)), D)

\* line 121: the fractions, back in the order of the axes
BCoords(fr) == SeqOf(LAMBDA a : fr[Len(fr) + 1 - a], Len(fr))

(***************************************************************************)
(* findFab (lines 123-125).                                                *)
(***************************************************************************)
Flat(m) == SeqOf(LAMBDA k : m[((k - 1) \div Len(m[1])) + 1][((k - 1) % Len(m[1])) + 1],
                 Len(m) * Len(m[1]))

bFabMin(bIndex) == SeqMap(LAMBDA m : SeqMin(Flat(m), 1), bIndex)

bFabMax(bIndex) == SeqMap(LAMBDA m : SeqMax(Flat(m), 1), bIndex)

findFab(bIndex) ==
    LET lo == bFabMin(bIndex)
        hi == bFabMax(bIndex)
    IN  shaped(SeqOf(LAMBDA i : hi[i] - lo[i] + 1, Len(bIndex)), lo)

(***************************************************************************)
(* bNoise and __interpolation (lines 100-111), one sample at a time.       *)
(***************************************************************************)
\* line 111
Interpolation(v0, v1, w) == RAdd(RMul(w, RSub(v1, v0)), v0)

\* the index into self.__warp at step d of D: lines 106 and 107
WarpIndex(d, D) == IF d < D - 1 THEN d ELSE -1

RECURSIVE Collapse(_, _, _)
Collapse(vals, t, d) ==
    LET w == WarpApply(NTupleGet(warp, WarpIndex(d, Len(t))), t[d + 1])
        nxt == SeqOf(LAMBDA k : Interpolation(vals[2 * k - 1], vals[2 * k], w),
                     Len(vals) \div 2)
    IN  IF d = Len(t) - 1 THEN nxt ELSE Collapse(nxt, t, d + 1)

\* the Warp applied at each step
WarpsUsed(D) == SeqOf(LAMBDA d : NTupleGet(warp, WarpIndex(d - 1, D)), D)

\* line 128
applyRange(noise) == RAdd(RMul(noise, RInt(rangeMul)), RInt(range[1]))

(***************************************************************************)
(* __call__ (lines 92-98).                                                 *)
(***************************************************************************)
\* line 93 and np.ravel
Ravel(cs) == IF Len(cs) = 0 THEN <<Array(<<0>>)>> ELSE cs

NPerlinCall(cs, cast) ==
    LET fCoords == formatCoords(Ravel(cs))
        D == Len(fCoords)
        N == Len(fCoords[1])
    IN  IF ampRaises THEN [Result("ZeroDivisionError") EXCEPT !.mat = fCoords]
        ELSE
        LET u == Unitized(fCoords)
            lower == LowerIndex(u, cast)
            bIndex == BIndex(lower)
            bCoords == BCoords(Fraction(u, lower))
            fab == findFab(bIndex)
            inside == \A c \in 1..Pow2(D), j \in 1..N :
                            InFab(fab, SeqOf(LAMBDA i : bIndex[i][c][j], D))
            base == [Result("ok") EXCEPT !.mat = fCoords, !.lower = lower,
                        !.frac = bCoords, !.index = bIndex, !.shape = fab.shape,
                        !.off = fab.off]
        IN  IF ~inside THEN [base EXCEPT !.status = "IndexError"]
            ELSE [base EXCEPT
                    !.warps = WarpsUsed(D),
                    !.vals = SeqOf(LAMBDA j :
                        applyRange(Collapse(
                            SeqOf(LAMBDA c :
                                FabGet(seed, fab, SeqOf(LAMBDA i : bIndex[i][c][j], D)),
                                Pow2(D)),
                            SeqOf(LAMBDA a : bCoords[a][j], D), 0)[1]), N)]

\* one outcome per outcome of the casts of line 116
Call(cs) ==
    /\ pc = "idle"
    /\ UNCHANGED config
    /\ \E r \in {NPerlinCall(cs, cast) : cast \in Casts} : Done("call", NoArg, cs, r)

FormatCoords(cs) ==
    /\ pc = "idle"
    /\ UNCHANGED config
    /\ Done("formatCoords", NoArg, cs, [Result("ok") EXCEPT !.mat = formatCoords(cs)])

Next ==
    \/ \E s \in Seeds : setSeed(s)
    \/ \E a \in FrequencyArgs : setFrequency(a)
    \/ \E a \in WaveLengthArgs : setWaveLength(a)
    \/ \E a \in WarpArgs : setWarp(a)
    \/ \E a \in RangeArgs : setRange(a)
    \/ \E m \in FwmArgs : setFwm(m)
    \/ \E cs \in CallInputs : Call(cs)
    \/ Return

Spec == Init /\ [][Next]_vars

\* the setters alone
NextConfig ==
    \/ \E s \in Seeds : setSeed(s)
    \/ \E a \in FrequencyArgs : setFrequency(a)
    \/ \E a \in WaveLengthArgs : setWaveLength(a)
    \/ \E a \in WarpArgs : setWarp(a)
    \/ \E a \in RangeArgs : setRange(a)
    \/ \E m \in FwmArgs : setFwm(m)
    \/ Return

SpecConfig == Init /\ [][NextConfig]_vars

\* formatCoords alone, a static method
NextFormat ==
    \/ \E cs \in FormatInputs : FormatCoords(cs)
    \/ Return

SpecFormat == InitDefault /\ [][NextFormat]_vars

\* calls on every lattice the constructor builds
NextLattice ==
    \/ \E cs \in CallInputs : Call(cs)
    \/ Return

SpecLattice == InitLattice /\ [][NextLattice]_vars

(***************************************************************************)
(* Properties.                                                             *)
(***************************************************************************)
Called == pc = "done" /\ op = "call"

Formatted == pc = "done" /\ op = "formatCoords"

\* the coordinates of the last operation, as a set
CoordSet == UNION {Range(coords[d].v) : d \in 1..Len(coords)}

\* one value per axis is configured for frequency and for waveLength
UniformAxes == Len(frequency) = 1 /\ Len(waveLength) = 1

\* two calls that both return, return the same values
SameOutput(r1, r2) ==
    (r1.status = "ok" /\ r2.status = "ok")
        => /\ Len(r1.vals) = Len(r2.vals)
           /\ \A j \in 1..Len(r1.vals) :
                 (IsNum(r1.vals[j]) /\ IsNum(r2.vals[j])) => r1.vals[j] = r2.vals[j]

\* the coordinates cs with k added to every coordinate of axis a
Shifted(cs, a, k) ==
    SeqOf(LAMBDA d : IF d = a THEN Array(SeqMap(LAMBDA x : x + k, cs[d].v)) ELSE cs[d],
          Len(cs))

\* the coordinates cs, each reduced modulo the effective wave length of its axis
Reduced(cs) ==
    SeqOf(LAMBDA d : Array(SeqMap(LAMBDA x : x % NTupleGet(mWaveLength, d - 1), cs[d].v)),
          Len(cs))

\* C1: with as many frequency as waveLength entries, and for non-negative
\* coordinates whose lattice indices fit 16 bits, adding
\* effectiveWaveLength[a] to the coordinates of axis a leaves the values the
\* call returns as they were, for every axis a.
C1_Periodicity ==
    (Called /\ Len(coords) > 0 /\ CoordSet \subseteq {0, 24}
       /\ Len(frequency) = Len(waveLength))
        => \A a \in 1..Len(coords), cast \in Casts :
              SameOutput(res, NPerlinCall(
                  Shifted(coords, a, NTupleGet(mWaveLength, a - 1)), cast))

\* C2: with one frequency and one waveLength for all axes, a call at
\* non-negative coordinates has floor(unitizedCoord) as lower index, a
\* fraction in [0, 1), and returns the values of the call at the coordinates
\* reduced modulo effectiveWaveLength.
C2_WrapSafety ==
    (Called /\ Len(coords) > 0 /\ UniformAxes /\ fwm > 0 /\ \A x \in CoordSet : x >= 0)
        => /\ res.lower = SeqMap(LAMBDA row : SeqMap(RFloor, row), Unitized(res.mat))
           /\ \A a \in 1..Len(res.frac) : \A t \in Range(res.frac[a]) :
                 RLe(RInt(0), t) /\ RLt(t, RInt(1))
           /\ \A cast \in Casts : SameOutput(res, NPerlinCall(Reduced(coords), cast))

\* C3: when lo <= hi, every value a call returns lies in [lo, hi].
C3_RangeBound ==
    (Called /\ res.status = "ok" /\ range[1] <= range[2])
        => \A j \in 1..Len(res.vals) :
              IsNum(res.vals[j])
                  => RLe(RInt(range[1]), res.vals[j]) /\ RLe(res.vals[j], RInt(range[2]))

\* the lattice index of formatted coordinate x on an axis whose spacing is a
NodeOf(x, a) == RFloor(Unitize(x, a))

OnNode(x, a) == Unitize(x, a)[2] = 1

\* C4: with one frequency and one waveLength for all axes and lattice indices
\* that fit 16 bits, a call at coordinates that are multiples of the
\* internodal spacing returns lo + v * (hi - lo) for every sample, v being
\* the provider's value at the wrapped index of the sample's node.
C4_CornerExactness ==
    (Called /\ UniformAxes /\ fwm > 0
       /\ \A x \in CoordSet : OnNode(Abs(x), amp[1]) /\ NodeOf(Abs(x), amp[1]) < UInt16Range)
        => /\ res.status = "ok"
           /\ \A j \in 1..Len(res.vals) :
                 res.vals[j] =
                     RAdd(RInt(range[1]),
                          RMul(Node(seed, SeqOf(LAMBDA i :
                                   NodeOf(res.mat[Len(res.mat) + 1 - i][j], amp[1])
                                       % mFrequency[1], Len(res.mat))),
                               RInt(range[2] - range[1])))

\* what the validation rules of the specification call malformed
MalformedFrequency(a) ==
    ~ /\ a.kind = "tuple" \/ (a.kind = "scalar" /\ IsInt(a.el[1]))
      /\ \A e \in Range(a.el) : IsInt(e) /\ e.n > 1

MalformedWaveLength(a) ==
    ~ /\ a.kind = "tuple" \/ (a.kind = "scalar" /\ IsReal(a.el[1]))
      /\ \A e \in Range(a.el) : IsReal(e) /\ e.n > 0

MalformedWarp(a) ==
    ~ /\ a.kind = "tuple" \/ (a.kind = "scalar" /\ IsWarp(a.el[1]))
      /\ \A e \in Range(a.el) : IsWarp(e)

MalformedRange(a) ==
    ~ /\ a.kind = "tuple"
      /\ Len(a.el) = 2
      /\ \A e \in Range(a.el) : IsReal(e)

\* C5: a setter handed a malformed argument raises, and no call fails on a
\* stored configuration value.
C5_EagerValidation ==
    /\ (pc = "done" /\ op = "setFrequency" /\ MalformedFrequency(arg)) => res.status # "ok"
    /\ (pc = "done" /\ op = "setWaveLength" /\ MalformedWaveLength(arg)) => res.status # "ok"
    /\ (pc = "done" /\ op = "setWarp" /\ MalformedWarp(arg)) => res.status # "ok"
    /\ (pc = "done" /\ op = "setRange" /\ MalformedRange(arg) /\ arg.kind # "list")
            => res.status # "ok"
    /\ Called => res.status # "ZeroDivisionError"

\* C6: a step of a setter, accepted or rejected, changes no stored field
\* other than the one the setter is for.
C6_SetterIndependence ==
    [][(pc = "idle" /\ pc' = "done") =>
          /\ (op' # "setSeed" => seed' = seed)
          /\ (op' # "setFrequency" => frequency' = frequency)
          /\ (op' # "setWaveLength" => waveLength' = waveLength)
          /\ (op' # "setWarp" => warp' = warp)
          /\ (op' # "setRange" => range' = range /\ rangeMul' = rangeMul)
          /\ (op' # "setFwm" => fwm' = fwm)]_vars

\* a setter has replaced its own field beside fields set to other than their defaults
C6_Witness ==
    /\ pc = "done" /\ op = "setWaveLength" /\ res.status = "ok"
    /\ waveLength = <<8, 32>>
    /\ frequency = <<2, 4>> /\ warp = <<"lerp", "improved">> /\ range = <<-2, 2>>
    /\ fwm = 2 /\ seed = 1

\* entry j (from 0) of the row the claim describes, for an axis v and n columns
Aligned(v, n, j) ==
    LET stretch == n \div Len(v)
        left == n % Len(v)
    IN  IF j < n - left THEN v[(j \div stretch) + 1] ELSE v[Len(v)]

\* the shape of the matrix formatCoords returned
MatrixShape ==
    /\ Len(res.mat) = Len(coords)
    /\ \A d \in 1..Len(coords) : Len(res.mat[d]) = maxLength(coords)

\* C7 as stated: entry j of row d is |axis_d[j div stretch]| for j < N - left
\* and |axis_d[L_d - 1]| after that.
C7_BroadcastExact ==
    Formatted =>
        /\ MatrixShape
        /\ \A d \in 1..Len(coords), j \in 0..(maxLength(coords) - 1) :
              res.mat[d][j + 1] = Abs(Aligned(coords[d].v, maxLength(coords), j))

\* C7 as amended: entry j of row d is the single precision value nearest to
\* axis_d[j div stretch] for j < N - left and to axis_d[L_d - 1] after that,
\* in absolute value.
C7_BroadcastFloat32 ==
    Formatted =>
        /\ MatrixShape
        /\ \A d \in 1..Len(coords), j \in 0..(maxLength(coords) - 1) :
              res.mat[d][j + 1] = Abs(Float32(Aligned(coords[d].v, maxLength(coords), j)))

\* two values stretched over five columns (stretch 2, left 1), the last of
\* them rounded to single precision, beside a row of five
C7_Witness ==
    /\ Formatted
    /\ Len(coords) = 2
    /\ coords[1] = Array(<<-12, 16777217>>)
    /\ Len(coords[2].v) = 5
    /\ res.mat[1] = <<12, 12, 16777216, 16777216, 16777216>>

\* C8: a call that returns leaves one value per sample, and its blend at step
\* d applied the Warp configured for axis d.
C8_PerAxisWarp ==
    (Called /\ res.status = "ok")
        => /\ Len(res.vals) = Len(res.mat[1])
           /\ \A d \in 1..Len(res.mat) : res.warps[d] = NTupleGet(warp, d - 1)

\* C9: for every axis, the derived values read from the current fields are
\* frequency * fwm, waveLength * fwm and their quotient.
C9_LiveDerived ==
    fwm > 0 =>
        \A axis \in 0..MaxDims :
            /\ NTupleGet(mFrequency, axis) = NTupleGet(frequency, axis) * fwm
            /\ NTupleGet(mWaveLength, axis) = NTupleGet(waveLength, axis) * fwm
            /\ NTupleGet(amp, axis)
                   = Rat(NTupleGet(mWaveLength, axis), NTupleGet(mFrequency, axis))

\* C10: the corner indices of a call are wrapped into [0, effectiveFrequency)
\* and the window it requests has, on each of its axes i, an extent of at most
\* effectiveFrequency[i] and an offset in [0, effectiveFrequency[i]).
C10_BoundedWindow ==
    (Called /\ res.status \in {"ok", "IndexError"})
        => \A i \in 1..Len(res.shape) :
              /\ \A k \in Range(Flat(res.index[i])) :
                     0 <= k /\ k < NTupleGet(mFrequency, i - 1)
              /\ res.shape[i] = SeqMax(Flat(res.index[i]), 1) - SeqMin(Flat(res.index[i]), 1) + 1
              /\ res.off[i] = SeqMin(Flat(res.index[i]), 1)
              /\ res.shape[i] <= NTupleGet(mFrequency, i - 1)
              /\ 0 <= res.off[i] /\ res.off[i] < NTupleGet(mFrequency, i - 1)

\* a call on two axes with a coordinate far outside the lattice period, whose
\* window spans a whole period of four nodes on one of its axes
C10_Witness ==
    /\ Called /\ res.status = "ok"
    /\ Len(coords) = 2
    /\ coords[1] = Array(<<0, Huge>>) /\ Len(coords[2].v) = 2
    /\ \E i \in 1..2 : res.shape[i] = 4 /\ NTupleGet(mFrequency, i - 1) = 4

====
